---- MODULE Spec2Model ----
(***************************************************************************)
(* A model of the tennispredictor data pipeline:                           *)
(*   TennisDataProcessor (src/src/dataprocessor.py)   bracket flattening   *)
(*   TennisDataCombiner  (src/src/datacombiner.py)    merge + symmetrize   *)
(*   FeatureBuilder      (src/src/featuresbuilder.py) label and features   *)
(*                                                                         *)
(* Python strings on which the code works character by character (results, *)
(* scores, round labels) are sequences of one-character strings, so that   *)
(* split, lower, concatenation and regular-expression search are computed  *)
(* as the code computes them.  Strings used only as dictionary keys or as  *)
(* returned codes (tournament names, stage codes) are TLA+ strings.        *)
(***************************************************************************)
EXTENDS Integers, Sequences, FiniteSets, TLC

VARIABLES
    \* one result value through reverse_result / define_label
    result, rev, rev2, label, mlabel, sc_pc,
    \* one call of map_round_description
    rd_label, rd_out, rd_pc,
    \* extract_games_from_cuptree, block by block
    fl_tournament, fl_description, cur_block, games_list, fl_log, fl_status,
    fl_returned,
    \* process_all_data, combine_data and build_features, one after the other
    pa_participants_list, pa_games_list, participants_df, games_df,
    combined_df, sym_df, features, dt_pc,
    \* participant_features on two rosters of the same participants
    bd_roster_a, bd_roster_b, bd_features_a, bd_features_b, bd_pc

sc_vars == <<result, rev, rev2, label, mlabel, sc_pc>>

rd_vars == <<rd_label, rd_out, rd_pc>>

fl_vars == <<fl_tournament, fl_description, cur_block, games_list, fl_log,
             fl_status, fl_returned>>

dt_vars == <<pa_participants_list, pa_games_list, participants_df, games_df,
             combined_df, sym_df, features, dt_pc>>

bd_vars == <<bd_roster_a, bd_roster_b, bd_features_a, bd_features_b, bd_pc>>

vars == <<sc_vars, rd_vars, fl_vars, dt_vars, bd_vars>>

\* the variables a specification does not use keep their idle values
sc_rest == <<rd_vars, fl_vars, dt_vars, bd_vars>>

rd_rest == <<sc_vars, fl_vars, dt_vars, bd_vars>>

fl_rest == <<sc_vars, rd_vars, dt_vars, bd_vars>>

dt_rest == <<sc_vars, rd_vars, fl_vars, bd_vars>>

bd_rest == <<sc_vars, rd_vars, fl_vars, dt_vars>>

-----------------------------------------------------------------------------
(* Values *)

\* Python None (a missing result, a bye's away_id)
None == <<"<None>">>

\* a missing value read back from a CSV file (pandas NaN)
NaN == <<"<NaN>">>

\* a variable that holds nothing yet
Unset == <<"<unset>">>

\* the outcome of a call that raised
Raised == "<raised>"

\* a round without a 'description' key: round_item.get('description', {})
Missing == <<"<missing>">>

\* isinstance(v, str)
IsStr(v) == v \notin {None, NaN, Unset, Missing}

\* a participant's 'team' record, with the columns get_all_participants
\* keeps; ids are written as digit strings, the other columns (slug,
\* shortName, gender, nameCode, disabled, national) do not vary here
Team(i, n, r) == [id |-> i, name |-> n, ranking |-> r]

Team1 == Team(<<"1">>, "Player One", 5)

\* the same player with another ranking (another season's bracket)
Team1Later == Team(<<"1">>, "Player One", 7)

Team2 == Team(<<"2">>, "Player Two", 5)

-----------------------------------------------------------------------------
(* Bounds *)

\* longest result string enumerated ("1:0:1" needs 5)
MaxResultLen == 5

\* blocks read by one call of extract_games_from_cuptree
MaxBlocks == 2

\* cuptrees files read by one call of process_all_data
MaxFiles == 2

\* participants of the rosters participant_features is compared on
MaxRoster == 3

-----------------------------------------------------------------------------
(* String primitives *)

UpperSeq == <<"A","B","C","D","E","F","G","H","I","J","K","L","M",
              "N","O","P","Q","R","S","T","U","V","W","X","Y","Z">>

LowerSeq == <<"a","b","c","d","e","f","g","h","i","j","k","l","m",
              "n","o","p","q","r","s","t","u","v","w","x","y","z">>

LowerChar(c) ==
    IF \E i \in 1..Len(UpperSeq) : UpperSeq[i] = c
    THEN LowerSeq[CHOOSE i \in 1..Len(UpperSeq) : UpperSeq[i] = c]
    ELSE c

\* str.lower()
lower(s) == [i \in 1..Len(s) |-> LowerChar(s[i])]

\* sub in s
Contains(s, sub) ==
    \E i \in 0..(Len(s) - Len(sub)) : SubSeq(s, i + 1, i + Len(sub)) = sub

\* position of the first c in s, 0 when there is none
FirstIndex(s, c) ==
    IF \E i \in 1..Len(s) : s[i] = c
    THEN CHOOSE i \in 1..Len(s) : s[i] = c /\ \A j \in 1..(i - 1) : s[j] # c
    ELSE 0

\* s.split(c)
RECURSIVE split(_, _)
split(s, c) ==
    LET i == FirstIndex(s, c)
    IN  IF i = 0 THEN <<s>>
        ELSE <<SubSeq(s, 1, i - 1)>> \o split(SubSeq(s, i + 1, Len(s)), c)

Digits == <<"0","1","2","3","4","5","6","7","8","9">>

IsDigit(c) == \E i \in 1..Len(Digits) : Digits[i] = c

DigitValue(c) == (CHOOSE i \in 1..Len(Digits) : Digits[i] = c) - 1

\* int(s) succeeds (the characters enumerated here are digits, ':' and letters)
IntParses(s) == Len(s) > 0 /\ \A i \in 1..Len(s) : IsDigit(s[i])

\* int(s)
RECURSIVE int(_)
int(s) ==
    IF Len(s) = 0 THEN 0
    ELSE 10 * int(SubSeq(s, 1, Len(s) - 1)) + DigitValue(s[Len(s)])

\* all strings over alphabet A of length at most n
RECURSIVE StringsUpTo(_, _)
StringsUpTo(A, n) ==
    IF n = 0 THEN {<<>>}
    ELSE LET shorter == StringsUpTo(A, n - 1)
         IN  shorter \cup {Append(s, c) : s \in shorter, c \in A}

-----------------------------------------------------------------------------
(* TennisDataProcessor.extract_games_from_cuptree: the result tests *)

s_retired  == <<"r","e","t","i","r","e","d">>
s_walkover == <<"w","a","l","k","o","v","e","r">>
s_0_0      == <<"0",":","0">>
s_home_won == <<"h","o","m","e"," ","w","o","n">>
s_away_won == <<"a","w","a","y"," ","w","o","n">>
s_on_going == <<"o","n","-","g","o","i","n","g">>

\* line 118: block.get('result') and block.get('result').lower() in [...]
IsTerminalResult(r) ==
    /\ IsStr(r)
    /\ Len(r) > 0
    /\ lower(r) \in {s_retired, s_walkover, s_0_0}

\* line 120: block.get('result') in ['home won', 'away won', 'on-going']
IsSentinelResult(r) == r \in {s_home_won, s_away_won, s_on_going}

-----------------------------------------------------------------------------
(* TennisDataCombiner.symmetrize_games: reverse_result *)

reverse_result(r) ==
    IF IsStr(r) /\ Contains(r, <<":">>)
    THEN LET parts == split(r, ":")
         IN  parts[2] \o <<":">> \o parts[1]
    ELSE r

-----------------------------------------------------------------------------
(* FeatureBuilder.define_label *)

define_label(r) ==
    IF IsStr(r) /\ Contains(r, <<":">>)
    THEN LET parts == split(r, ":")
         IN  IF ~IntParses(parts[1]) \/ ~IntParses(parts[2]) THEN Raised
             ELSE IF int(parts[1]) > int(parts[2]) THEN "home"
             ELSE "away"
    ELSE Raised

-----------------------------------------------------------------------------
(* Specification SpecScore: one result value that the flattener lets       *)
(* through goes through reverse_result (once, twice) and define_label.     *)

ResultChars == {"0", "1", ":", "a"}

\* the result values enumerated: strings, and the non-strings None and NaN
ResultValues == StringsUpTo(ResultChars, MaxResultLen) \cup {None, NaN}

ScIdle ==
    /\ result = Unset
    /\ rev = Unset
    /\ rev2 = Unset
    /\ label = "<unset>"
    /\ mlabel = "<unset>"
    /\ sc_pc = "idle"

RdIdle ==
    /\ rd_label = Unset
    /\ rd_out = "<unset>"
    /\ rd_pc = "idle"

\* no block read yet
NoBlock ==
    [id |-> 0, result |-> None, homeTeamScore |-> <<>>, awayTeamScore |-> <<>>,
     participants |-> <<>>]

FlIdle ==
    /\ fl_tournament = "<unset>"
    /\ fl_description = Unset
    /\ cur_block = NoBlock
    /\ games_list = <<>>
    /\ fl_log = FALSE
    /\ fl_status = "idle"
    /\ fl_returned = <<>>

DtIdle ==
    /\ pa_participants_list = <<>>
    /\ pa_games_list = <<>>
    /\ participants_df = <<>>
    /\ games_df = <<>>
    /\ combined_df = <<>>
    /\ sym_df = <<>>
    /\ features = <<>>
    /\ dt_pc = "idle"

BdIdle ==
    /\ bd_roster_a = <<>>
    /\ bd_roster_b = <<>>
    /\ bd_features_a = <<>>
    /\ bd_features_b = <<>>
    /\ bd_pc = "idle"

ScInit ==
    /\ RdIdle
    /\ FlIdle
    /\ DtIdle
    /\ BdIdle
    /\ result \in {r \in ResultValues : ~IsTerminalResult(r)}
    /\ rev = Unset
    /\ rev2 = Unset
    /\ label = "<unset>"
    /\ mlabel = "<unset>"
    /\ sc_pc = "start"

\* swapped['result'] = df['result'].apply(reverse_result)
ReverseResult ==
    /\ sc_pc = "start"
    /\ rev' = reverse_result(result)
    /\ sc_pc' = "reversed"
    /\ UNCHANGED <<result, rev2, label, mlabel, sc_rest>>

\* a second application of reverse_result, to the reversed value
ReverseAgain ==
    /\ sc_pc = "reversed"
    /\ rev2' = reverse_result(rev)
    /\ sc_pc' = "twice"
    /\ UNCHANGED <<result, rev, label, mlabel, sc_rest>>

\* features['result'] = data['result'].apply(self.define_label), on the
\* original row and on its mirrored row
DefineLabels ==
    /\ sc_pc = "twice"
    /\ label' = define_label(result)
    /\ mlabel' = define_label(rev)
    /\ sc_pc' = "labelled"
    /\ UNCHANGED <<result, rev, rev2, sc_rest>>

ScNext == ReverseResult \/ ReverseAgain \/ DefineLabels

SpecScore == ScInit /\ [][ScNext]_vars

-----------------------------------------------------------------------------
(* Claims checked under SpecScore *)

\* the two-part "H:A" shape: a string with exactly one colon
IsTwoPart(r) == IsStr(r) /\ Contains(r, <<":">>) /\ Len(split(r, ":")) = 2

\* C1: for every row whose result can be labelled, the label of the row and
\* the label of its mirrored row (result reversed) are opposite classes,
\* one 'home' and the other 'away', never equal.
C1_OppositeLabels ==
    (sc_pc = "labelled" /\ label \in {"home", "away"})
        => (mlabel \in {"home", "away"} /\ mlabel # label)

\* C3: reversing a result value twice yields the original value, and a value
\* that is not of the two-part "H:A" shape is returned unchanged by a single
\* reverse.
C3_ReverseTwiceIdentity ==
    /\ sc_pc \in {"twice", "labelled"} => rev2 = result
    /\ (sc_pc # "start" /\ ~IsTwoPart(result)) => rev = result

-----------------------------------------------------------------------------
(* TennisDataProcessor.map_round_description *)

\* round_map (lines 65-87), as the set of its <<key, value>> items
round_map ==
    { <<<<"R","1","2","8">>, "R128">>,
      <<<<"R","6","4">>, "R64">>,
      <<<<"R","3","2">>, "R32">>,
      <<<<"R","1","6">>, "R16">>,
      <<<<"Q","u","a","r","t","e","r","f","i","n","a","l","s">>, "QF">>,
      <<<<"Q","u","a","r","t","e","r","f","i","n","a","l">>, "QF">>,
      <<<<"S","e","m","i","f","i","n","a","l","s">>, "SF">>,
      <<<<"S","e","m","i","f","i","n","a","l">>, "SF">>,
      <<<<"F","i","n","a","l">>, "F">>,
      <<<<"1","/","3","2">>, "R32">>,
      <<<<"1","/","1","6">>, "R16">>,
      <<<<"1","/","8">>, "R8">>,
      <<<<"Q","u","a","l","i","f","i","c","a","t","i","o","n">>, "Q">>,
      <<<<"Q","u","a","l","i","f","i","c","a","t","i","o","n"," ","r","o","u","n","d"," ","1">>, "Q">>,
      <<<<"Q","u","a","l","i","f","i","c","a","t","i","o","n"," ","r","o","u","n","d"," ","2">>, "Q">>,
      <<<<"Q","u","a","l","i","f","i","c","a","t","i","o","n"," ","F","i","n","a","l">>, "Q">>,
      <<<<"Q","u","a","l","i","f","i","c","a","t","i","o","n"," ","f","i","n","a","l">>, "Q">>,
      <<<<"R","o","u","n","d"," ","o","f"," ","1","2","8">>, "R128">>,
      <<<<"R","o","u","n","d"," ","o","f"," ","6","4">>, "R64">>,
      <<<<"R","o","u","n","d"," ","o","f"," ","3","2">>, "R32">>,
      <<<<"R","o","u","n","d"," ","o","f"," ","1","6">>, "R16">> }

\* labels that are not keys of round_map and not letter-case variants of one
OtherLabels ==
    { <<"Q","u","a","l","i","f","y","i","n","g">>,
      <<"q","u","a","l","i","f","y","i","n","g"," ","r","o","u","n","d">>,
      <<"P","r","e","-","Q","U","A","L","I","F","Y","I","N","G"," ","3">>,
      <<"U","n","k","n","o","w","n"," ","S","t","a","g","e"," ","N","a","m","e">>,
      <<"R","o","u","n","d"," ","o","f"," ","8">>,
      <<"F","i","n","a","l","s">>,
      <<"F","i","n","a","l"," ">>,
      <<"1","/","4">>,
      <<"Q">> }

RoundMapKeys == {e[1] : e \in round_map}

RoundMapGet(k) == (CHOOSE e \in round_map : e[1] = k)[2]

s_qualification == <<"q","u","a","l","i","f","i","c","a","t","i","o","n">>
s_qualifying    == <<"q","u","a","l","i","f","y","i","n","g">>

\* the search without re.IGNORECASE
SearchQualifyingCaseSensitive(s) ==
    Contains(s, s_qualification) \/ Contains(s, s_qualifying)

\* re.search(r'qualification|qualifying', s, re.IGNORECASE)
SearchQualifying(s) ==
    Contains(lower(s), s_qualification) \/ Contains(lower(s), s_qualifying)

\* not round_description: the empty string, None and the {} default are falsy
IsFalsy(d) == d \in {<<>>, None, Missing}

map_round_description_silent(d) ==
    IF IsFalsy(d) THEN ""
    ELSE IF SearchQualifying(d) THEN "Q"
    ELSE IF d \notin RoundMapKeys THEN ""
    ELSE RoundMapGet(d)

map_round_description(d) ==
    IF IsFalsy(d) THEN ""
    ELSE IF SearchQualifying(d) THEN "Q"
    ELSE IF d \notin RoundMapKeys THEN Raised
    ELSE RoundMapGet(d)

-----------------------------------------------------------------------------
(* featuresbuilder.py: the fixed tables, as sets of <<key, value>> items *)

ordinal_mapping ==
    { <<"Q1", 1>>, <<"Q2", 2>>, <<"Q", 3>>, <<"R128", 4>>, <<"R64", 5>>,
      <<"R32", 6>>, <<"R16", 7>>, <<"R8", 8>>, <<"QF", 9>>, <<"SF", 10>>,
      <<"F", 11>> }

tournament_surfaces ==
    { <<"Australian Open", "Hard">>, <<"Roland Garros", "Clay">> }

\* the canonical stage codes
StageCodes == {e[1] : e \in ordinal_mapping}

-----------------------------------------------------------------------------
(* TennisDataProcessor.validate_score_format *)

\* re.match(r'^[0-3]:[0-3]$', score); '$' also matches before a final newline
validate_score_format(score) ==
    /\ IsStr(score)
    /\ Len(score) > 0
    /\ \/ Len(score) = 3
       \/ Len(score) = 4 /\ score[4] = "\n"
    /\ score[1] \in {"0", "1", "2", "3"}
    /\ score[2] = ":"
    /\ score[3] \in {"0", "1", "2", "3"}

-----------------------------------------------------------------------------
(* TennisDataProcessor.extract_games_from_cuptree: the body of the loop    *)
(* over blocks.  A MatchRecord keeps the columns the pipeline reads later; *)
(* finished, events, seriesStartDate and tournamentName are left out.      *)

\* the two scores the other way round
RewrittenResultSwapped(block) ==
    IF IsSentinelResult(block.result)
    THEN block.awayTeamScore \o <<":">> \o block.homeTeamScore
    ELSE block.result

\* block['result'] after lines 120-121
RewrittenResult(block) ==
    IF IsSentinelResult(block.result)
    THEN block.homeTeamScore \o <<":">> \o block.awayTeamScore
    ELSE block.result

MatchRecord(block, res, code, tournament) ==
    [id               |-> block.id,
     result           |-> res,
     homeTeamScore    |-> block.homeTeamScore,
     awayTeamScore    |-> block.awayTeamScore,
     home_id          |-> block.participants[1].id,
     away_id          |-> IF Len(block.participants) = 1 THEN None
                          ELSE block.participants[2].id,
     round_description |-> code,
     uniqueTournament |-> tournament]

\* a loop body in which a failed score validation drops the block
LoopBodyFiltering(games, description, tournament, block) ==
    IF IsTerminalResult(block.result)
    THEN [status |-> "running", games |-> games, logged |-> FALSE]
    ELSE LET res    == RewrittenResult(block)
             logged == ~validate_score_format(res)
             code   == map_round_description(description)
         IN  IF logged \/ Len(block.participants) < 1
             THEN [status |-> "running", games |-> games, logged |-> logged]
             ELSE IF code = Raised
             THEN [status |-> "raised", games |-> games, logged |-> logged]
             ELSE [status |-> "running", logged |-> logged,
                   games |-> Append(games,
                                    MatchRecord(block, res, code, tournament))]

\* a loop body in which a round label the classifier rejects drops the block
\* and the loop goes on
LoopBodySkipUnknown(games, description, tournament, block) ==
    IF IsTerminalResult(block.result)
    THEN [status |-> "running", games |-> games, logged |-> FALSE]
    ELSE LET res    == RewrittenResult(block)
             logged == ~validate_score_format(res)
             code   == map_round_description(description)
         IN  IF Len(block.participants) < 1 \/ code = Raised
             THEN [status |-> "running", games |-> games, logged |-> logged]
             ELSE [status |-> "running", logged |-> logged,
                   games |-> Append(games,
                                    MatchRecord(block, res, code, tournament))]

\* lines 117-137: the next state of games_list, whether logging.error was
\* called, and whether map_round_description raised
LoopBody(games, description, tournament, block) ==
    IF IsTerminalResult(block.result)
    THEN [status |-> "running", games |-> games, logged |-> FALSE]
    ELSE LET res    == RewrittenResult(block)
             logged == ~validate_score_format(res)
             code   == map_round_description(description)
         IN  IF Len(block.participants) < 1
             THEN [status |-> "running", games |-> games, logged |-> logged]
             ELSE IF code = Raised
             THEN [status |-> "raised", games |-> games, logged |-> logged]
             ELSE [status |-> "running", logged |-> logged,
                   games |-> Append(games,
                                    MatchRecord(block, res, code, tournament))]

-----------------------------------------------------------------------------
(* Specification SpecFlat: one call of extract_games_from_cuptree reads    *)
(* the rounds and blocks of a cup tree one after the other.                *)

Tournaments == {"Australian Open", "Wimbledon"}

s_2_1 == <<"2",":","1">>

\* the three sentinels, 'retired' with a capital, a valid score, a score
\* validate_score_format rejects, and a block without a result
FlatResults ==
    { s_home_won, s_away_won, s_on_going,
      <<"R","e","t","i","r","e","d">>,
      s_2_1, <<"4",":","1">>, None }

\* homeTeamScore and awayTeamScore: "2" and "1", or "0" and "0"; the code
\* reads them for a sentinel result only, so the other results come with
\* the first pair
ScorePairs(r) ==
    IF IsSentinelResult(r)
    THEN { <<<<"2">>, <<"1">>>>, <<<<"0">>, <<"0">>>> }
    ELSE { <<<<"2">>, <<"1">>>> }

\* a block's participants: none, a bye, two players
FlatParticipants == { <<>>, <<Team1>>, <<Team1, Team2>> }

FlatDescriptions ==
    { <<"Q","u","a","r","t","e","r","f","i","n","a","l">>,
      <<"U","n","k","n","o","w","n">>,
      <<>>,
      Missing }

\* lines 106-111: the call starts on a cup tree of some tournament
FlInit ==
    /\ ScIdle
    /\ RdIdle
    /\ DtIdle
    /\ BdIdle
    /\ fl_tournament \in Tournaments
    /\ fl_description = Unset
    /\ cur_block = NoBlock
    /\ games_list = <<>>
    /\ fl_log = FALSE
    /\ fl_status = "running"
    /\ fl_returned = <<>>

\* lines 114-116: the next round of the cup tree; no block of it is read
\* yet (cur_block keeps the number of blocks read so far as its id)
NextRound ==
    /\ fl_status = "running"
    /\ \E d \in FlatDescriptions : fl_description' = d
    /\ cur_block' = [NoBlock EXCEPT !.id = cur_block.id]
    /\ fl_log' = FALSE
    /\ UNCHANGED <<fl_tournament, games_list, fl_status, fl_returned, fl_rest>>

\* lines 117-137: the next block of the round
ProcessBlock ==
    /\ fl_status = "running"
    /\ fl_description # Unset
    /\ cur_block.id < MaxBlocks
    /\ \E r \in FlatResults, ps \in FlatParticipants : \E sp \in ScorePairs(r) :
          LET block == [id |-> cur_block.id + 1, result |-> r,
                        homeTeamScore |-> sp[1], awayTeamScore |-> sp[2],
                        participants |-> ps]
              out   == LoopBody(games_list, fl_description, fl_tournament, block)
          IN  /\ cur_block' = block
              /\ games_list' = out.games
              /\ fl_log' = out.logged
              /\ fl_status' = out.status
    /\ UNCHANGED <<fl_tournament, fl_description, fl_returned, fl_rest>>

\* lines 139-149: the table of the games collected
ReturnGames ==
    /\ fl_status = "running"
    /\ fl_returned' = games_list
    /\ fl_status' = "returned"
    /\ UNCHANGED <<fl_tournament, fl_description, cur_block, games_list, fl_log,
                   fl_rest>>

FlNext == NextRound \/ ProcessBlock \/ ReturnGames

SpecFlat == FlInit /\ [][FlNext]_vars

-----------------------------------------------------------------------------
(* Specification SpecRound: map_round_description is called on a label.    *)

UpperChar(c) ==
    IF \E i \in 1..Len(LowerSeq) : LowerSeq[i] = c
    THEN UpperSeq[CHOOSE i \in 1..Len(LowerSeq) : LowerSeq[i] = c]
    ELSE c

upper(s) == [i \in 1..Len(s) |-> UpperChar(s[i])]

\* the labels enumerated: every key of round_map, its lower-case and its
\* upper-case variant, other labels, and the falsy values
RoundLabels ==
    RoundMapKeys
        \cup {lower(k) : k \in RoundMapKeys}
        \cup {upper(k) : k \in RoundMapKeys}
        \cup OtherLabels
        \cup {<<>>, None, Missing}

RdInit ==
    /\ ScIdle
    /\ FlIdle
    /\ DtIdle
    /\ BdIdle
    /\ rd_label \in RoundLabels
    /\ rd_out = "<unset>"
    /\ rd_pc = "called"

\* the call returns or raises
MapRoundDescription ==
    /\ rd_pc = "called"
    /\ rd_out' = map_round_description(rd_label)
    /\ rd_pc' = "done"
    /\ UNCHANGED <<rd_label, rd_rest>>

\* the caller passes the next label
NextLabel ==
    /\ rd_pc = "done"
    /\ \E l \in RoundLabels : rd_label' = l
    /\ rd_out' = "<unset>"
    /\ rd_pc' = "called"
    /\ UNCHANGED rd_rest

RdNext == MapRoundDescription \/ NextLabel

SpecRound == RdInit /\ [][RdNext]_vars

-----------------------------------------------------------------------------
(* Claims checked under SpecRound *)

\* the label contains w, letter case ignored
ContainsIgnoringCase(s, w) ==
    \E i \in 0..(Len(s) - Len(w)) :
        \A j \in 1..Len(w) : LowerChar(s[i + j]) = LowerChar(w[j])

\* C5: for every non-empty label, map_round_description returns 'Q' if the
\* label contains "qualification" or "qualifying" in any letter case,
\* otherwise the table entry when the label is an exact key of the
\* round-label table, and otherwise it raises; it never returns a default
\* code for an unknown label.
C5_Classification ==
    (rd_pc = "done" /\ IsStr(rd_label) /\ Len(rd_label) > 0) =>
        IF \/ ContainsIgnoringCase(rd_label, s_qualification)
           \/ ContainsIgnoringCase(rd_label, s_qualifying)
        THEN rd_out = "Q"
        ELSE IF \E e \in round_map : e[1] = rd_label
        THEN <<rd_label, rd_out>> \in round_map
        ELSE rd_out = Raised

\* the call on the unknown label "Unknown Stage Name" has raised
C5_Witness ==
    /\ rd_pc = "done"
    /\ rd_label = <<"U","n","k","n","o","w","n"," ","S","t","a","g","e"," ","N","a","m","e">>
    /\ rd_out = Raised

-----------------------------------------------------------------------------
(* Claims checked under SpecFlat *)

\* the records games_list holds for the block read last (at the start of a
\* round cur_block is no block and has no participants)
CurRecords ==
    {i \in DOMAIN games_list :
        Len(cur_block.participants) >= 1 /\ games_list[i].id = cur_block.id}

\* the block read last reached line 133, the call of map_round_description
CurReachedClassifier ==
    /\ cur_block.id > 0
    /\ ~(/\ cur_block.result # None
         /\ Len(cur_block.result) > 0
         /\ lower(cur_block.result) \in {s_retired, s_walkover, s_0_0})
    /\ Len(cur_block.participants) >= 1

\* the description of the current round is a non-empty string that neither
\* mentions a qualifying round nor is a key of the round-label table
CurDescriptionUnknown ==
    /\ fl_description \notin {<<>>, Missing, Unset}
    /\ ~ContainsIgnoringCase(fl_description, s_qualification)
    /\ ~ContainsIgnoringCase(fl_description, s_qualifying)
    /\ \A e \in round_map : e[1] # fl_description

\* C4: every MatchRecord that extract_games_from_cuptree emits has a
\* round_description that is one of the canonical stage codes; for any round
\* description that does not resolve to such a code, an empty or missing
\* description included, the operation raises instead of emitting the record.
C4_CanonicalOrRaises ==
    /\ \A i \in DOMAIN games_list : games_list[i].round_description \in StageCodes
    /\ \A i \in DOMAIN fl_returned : fl_returned[i].round_description \in StageCodes
    /\ (CurReachedClassifier
            /\ (CurDescriptionUnknown \/ fl_description \in {<<>>, Missing}))
          => (fl_status = "raised" /\ CurRecords = {})

\* C4 as amended: every MatchRecord emitted has a round_description that is
\* a canonical stage code or the empty string, and it is the empty string
\* exactly for an empty or missing description; for a non-empty description
\* that does not resolve to a code the operation raises and emits no record.
C4_CanonicalOrEmptyOrRaises ==
    /\ \A i \in DOMAIN games_list :
          games_list[i].round_description \in StageCodes \cup {""}
    /\ \A i \in DOMAIN fl_returned :
          fl_returned[i].round_description \in StageCodes \cup {""}
    /\ \A i \in CurRecords :
          games_list[i].round_description = "" <=> fl_description \in {<<>>, Missing}
    /\ (CurReachedClassifier /\ CurDescriptionUnknown)
          => (fl_status = "raised" /\ CurRecords = {})
    /\ fl_status = "raised" => fl_returned = <<>>

\* a block of a round with an unknown description made the call raise after
\* a record of an earlier round was collected
C4_Witness ==
    /\ fl_status = "raised"
    /\ CurReachedClassifier
    /\ CurDescriptionUnknown
    /\ Len(games_list) = 1
    /\ games_list[1].round_description = "QF"

\* C6: for every block with at least one participant whose result is one of
\* the sentinels "home won", "away won", "on-going", the MatchRecord emitted
\* has result equal to homeTeamScore, a colon, awayTeamScore.
C6_SentinelRewritten ==
    (cur_block.result \in {s_home_won, s_away_won, s_on_going}
         /\ Len(cur_block.participants) >= 1)
      => /\ \A i \in CurRecords :
               games_list[i].result
                   = cur_block.homeTeamScore \o <<":">> \o cur_block.awayTeamScore
         /\ (fl_status = "running" /\ fl_description \in {<<>>, Missing} \cup RoundMapKeys)
               => CurRecords # {}
         /\ fl_status = "returned" => \A i \in CurRecords : fl_returned[i] = games_list[i]

\* a "home won" block with scores "2" and "1" is in the returned table with
\* result "2:1"
C6_Witness ==
    /\ fl_status = "returned"
    /\ cur_block.result = s_home_won
    /\ cur_block.homeTeamScore = <<"2">>
    /\ cur_block.awayTeamScore = <<"1">>
    /\ \E i \in DOMAIN fl_returned :
          fl_returned[i].id = cur_block.id /\ fl_returned[i].result = s_2_1

\* the result of the block read last as the flattener emits it
CurExpectedResult ==
    IF cur_block.result \in {s_home_won, s_away_won, s_on_going}
    THEN cur_block.homeTeamScore \o <<":">> \o cur_block.awayTeamScore
    ELSE cur_block.result

\* the pattern of a well-formed score: two digits 0-3 around a colon
WellFormedScore(r) ==
    /\ r # None
    /\ Len(r) = 3
    /\ r[1] \in {"0", "1", "2", "3"} /\ r[2] = ":" /\ r[3] \in {"0", "1", "2", "3"}

\* C7: score validation is not a filter: every block that is not skipped as
\* a terminal outcome, has at least one participant and sits in a round with
\* a classifiable label produces exactly one MatchRecord, whether or not
\* validate_score_format accepts its result; a malformed result reaches the
\* output unchanged.
C7_ValidationNotAFilter ==
    (CurReachedClassifier /\ ~CurDescriptionUnknown)
      => /\ Cardinality(CurRecords) = 1
         /\ \A i \in CurRecords : games_list[i].result = CurExpectedResult
         /\ fl_log = ~WellFormedScore(CurExpectedResult)
         /\ fl_status = "returned" => \A i \in CurRecords : fl_returned[i] = games_list[i]

\* the malformed score "4:1" was logged and is in the returned table
C7_Witness ==
    /\ fl_status = "returned"
    /\ fl_log
    /\ cur_block.result = <<"4",":","1">>
    /\ \E i \in DOMAIN fl_returned :
          fl_returned[i].id = cur_block.id /\ fl_returned[i].result = <<"4",":","1">>

-----------------------------------------------------------------------------
(* TennisDataProcessor: a whole cuptrees file.  A file is a sequence of    *)
(* cup trees [uniqueTournament, rounds], a round is [description, blocks]. *)

\* DataFrame.drop_duplicates(): of the rows equal in every column the first
\* is kept
RECURSIVE drop_duplicates(_)
drop_duplicates(rows) ==
    IF rows = <<>> THEN <<>>
    ELSE LET front == drop_duplicates(SubSeq(rows, 1, Len(rows) - 1))
             last  == rows[Len(rows)]
         IN  IF \E i \in DOMAIN front : front[i] = last THEN front
             ELSE Append(front, last)

\* pd.concat(frames, ignore_index=True)
RECURSIVE concat(_)
concat(frames) ==
    IF frames = <<>> THEN <<>> ELSE Head(frames) \o concat(Tail(frames))

\* lines 42-49: the teams of the participants of the blocks
BlocksParticipants(blocks) ==
    concat([i \in DOMAIN blocks |-> blocks[i].participants])

\* lines 40-49
RoundsParticipants(rounds) ==
    concat([i \in DOMAIN rounds |-> BlocksParticipants(rounds[i].blocks)])

\* lines 32-51; selecting the columns of an empty table raises (KeyError)
get_all_participants(cuptrees) ==
    LET participants_list ==
            concat([i \in DOMAIN cuptrees |-> RoundsParticipants(cuptrees[i].rounds)])
    IN  IF participants_list = <<>>
        THEN [status |-> "raised", rows |-> <<>>]
        ELSE [status |-> "ok", rows |-> drop_duplicates(participants_list)]

\* lines 117-137 for the blocks of one round, in order
RECURSIVE ExtractBlocks(_, _, _, _)
ExtractBlocks(games, description, tournament, blocks) ==
    IF blocks = <<>> THEN [status |-> "running", games |-> games]
    ELSE LET out == LoopBody(games, description, tournament, Head(blocks))
         IN  IF out.status = "raised" THEN [status |-> "raised", games |-> games]
             ELSE ExtractBlocks(out.games, description, tournament, Tail(blocks))

\* lines 114-137 for the rounds of one cup tree, in order
RECURSIVE ExtractRounds(_, _, _)
ExtractRounds(games, tournament, rounds) ==
    IF rounds = <<>> THEN [status |-> "running", games |-> games]
    ELSE LET out == ExtractBlocks(games, Head(rounds).description, tournament,
                                  Head(rounds).blocks)
         IN  IF out.status = "raised" THEN out
             ELSE ExtractRounds(out.games, tournament, Tail(rounds))

\* lines 108-137 for the cup trees of the file, in order
RECURSIVE ExtractCuptrees(_, _)
ExtractCuptrees(games, cuptrees) ==
    IF cuptrees = <<>> THEN [status |-> "running", games |-> games]
    ELSE LET out == ExtractRounds(games, Head(cuptrees).uniqueTournament,
                                  Head(cuptrees).rounds)
         IN  IF out.status = "raised" THEN out
             ELSE ExtractCuptrees(out.games, Tail(cuptrees))

\* lines 101-149: the table of the games, or the call raises
extract_games_from_cuptree(cuptrees) ==
    LET out == ExtractCuptrees(<<>>, cuptrees)
    IN  IF out.status = "raised" THEN [status |-> "raised", rows |-> <<>>]
        ELSE [status |-> "ok", rows |-> out.games]

-----------------------------------------------------------------------------
(* The CSV files between the stages: to_csv writes None, NaN and the empty *)
(* string as an empty field, read_csv reads an empty field as NaN.         *)

\* a missing value in a column of stage codes
NaNText == "<NaN>"

CsvValue(v) == IF v \in {None, NaN, <<>>} THEN NaN ELSE v

CsvText(v) == IF v \in {"", NaNText} THEN NaNText ELSE v

\* games.csv and combined.csv, written and read back
ReadCsvGames(rows) ==
    [i \in DOMAIN rows |->
        [rows[i] EXCEPT !.result = CsvValue(@),
                        !.away_id = CsvValue(@),
                        !.round_description = CsvText(@)]]

-----------------------------------------------------------------------------
(* TennisDataCombiner *)

\* the i-th value np.random.randint draws after np.random.seed(42)
SeededDraw(i) == [draw |-> i]

\* lines 26-39: the birthdates are drawn in row order
participant_features(participants) ==
    [i \in DOMAIN participants |->
        [id |-> participants[i].id, name |-> participants[i].name,
         ranking |-> participants[i].ranking, birthdate |-> SeededDraw(i)]]

\* lines 80-87: inner join of the games with the roster on home_id
RECURSIVE MergeHome(_, _)
MergeHome(games, part) ==
    IF games = <<>> THEN <<>>
    ELSE LET g  == Head(games)
             ms == SelectSeq(part, LAMBDA q : q.id = g.home_id)
         IN  [i \in DOMAIN ms |->
                 g @@ [id_home |-> ms[i].id, name_home |-> ms[i].name,
                       birthdate_home |-> ms[i].birthdate]]
             \o MergeHome(Tail(games), part)

\* lines 88-95: inner join of the result with the roster on away_id
RECURSIVE MergeAway(_, _)
MergeAway(games, part) ==
    IF games = <<>> THEN <<>>
    ELSE LET g  == Head(games)
             ms == SelectSeq(part, LAMBDA q : q.id = g.away_id)
         IN  [i \in DOMAIN ms |->
                 g @@ [id_away |-> ms[i].id, name_away |-> ms[i].name,
                       birthdate_away |-> ms[i].birthdate]]
             \o MergeAway(Tail(games), part)

\* lines 51-63: every column with 'home' in its name is exchanged with its
\* 'away' column, and the result is reversed
Swapped(row) ==
    [row EXCEPT !.homeTeamScore = row.awayTeamScore,
                !.awayTeamScore = row.homeTeamScore,
                !.home_id = row.away_id,
                !.away_id = row.home_id,
                !.id_home = row.id_away,
                !.id_away = row.id_home,
                !.name_home = row.name_away,
                !.name_away = row.name_home,
                !.birthdate_home = row.birthdate_away,
                !.birthdate_away = row.birthdate_home,
                !.result = reverse_result(row.result)]

\* each mirrored row placed right after its original
RECURSIVE symmetrize_games_interleaved(_)
symmetrize_games_interleaved(df) ==
    IF df = <<>> THEN <<>>
    ELSE <<Head(df), Swapped(Head(df))>> \o symmetrize_games_interleaved(Tail(df))

\* lines 41-70
symmetrize_games(df) == df \o [i \in DOMAIN df |-> Swapped(df[i])]

-----------------------------------------------------------------------------
(* FeatureBuilder.build_features *)

\* Series.map(table) for one value: the set holding the value found, the
\* empty set (NaN) when the key is not in the table; it raises for no key
SeriesMap(table, key) == {e[2] : e \in {x \in table : x[1] = key}}

\* lines 52-80: a FeatureRow with the label, the identifiers, surface and
\* round_ordinal (the ages and the month columns are left out), or the call
\* raises in define_label
build_features(data) ==
    IF \E i \in DOMAIN data : define_label(data[i].result) = Raised
    THEN [status |-> "raised", rows |-> <<>>]
    ELSE [status |-> "ok",
          rows |-> [i \in DOMAIN data |->
                       [result |-> define_label(data[i].result),
                        id_home |-> data[i].id_home,
                        id_away |-> data[i].id_away,
                        surface |-> SeriesMap(tournament_surfaces,
                                              data[i].uniqueTournament),
                        round_ordinal |-> SeriesMap(ordinal_mapping,
                                                    data[i].round_description)]]]

-----------------------------------------------------------------------------
(* Specification SpecData: Pipeline.run after the fetch: process_all_data  *)
(* file by file, combine_data, build_features.                             *)

s_final == <<"F","i","n","a","l">>

Block(i, r, ps) ==
    [id |-> i, result |-> r, homeTeamScore |-> <<"2">>, awayTeamScore |-> <<"1">>,
     participants |-> ps]

\* a file with one cup tree of one round
OneRound(t, d, blocks) ==
    << [uniqueTournament |-> t, rounds |-> <<[description |-> d, blocks |-> blocks]>>] >>

\* a bye, two players, the first player with a later ranking, the players
\* in the other order
DataParticipants ==
    { <<Team1>>, <<Team1, Team2>>, <<Team1Later, Team2>>, <<Team2, Team1>> }

\* the files enumerated as the n-th file read; block ids are unique across
\* files.  A final of a tournament with or without surface, a round without
\* description, a block without result, two blocks naming the same players,
\* and a round with an unknown description.
CuptreeFiles(n) ==
    { OneRound(td[1], td[2], <<Block(10 * n + 1, r, ps)>>) :
          td \in { <<"Australian Open", s_final>>, <<"Wimbledon", s_final>>,
                   <<"Australian Open", <<>>>> },
          r \in {s_2_1, None},
          ps \in DataParticipants }
    \cup
    { OneRound("Australian Open", s_final,
               <<Block(10 * n + 1, s_2_1, <<Team1, Team2>>),
                 Block(10 * n + 2, s_2_1, ps)>>) :
          ps \in { <<Team2, Team1>>, <<Team1Later, Team2>> } }
    \cup
    { OneRound("Australian Open", <<"U","n","k","n","o","w","n">>,
               <<Block(10 * n + 1, s_2_1, <<Team1, Team2>>)>>) }

DtInit ==
    /\ ScIdle
    /\ RdIdle
    /\ FlIdle
    /\ BdIdle
    /\ pa_participants_list = <<>>
    /\ pa_games_list = <<>>
    /\ participants_df = <<>>
    /\ games_df = <<>>
    /\ combined_df = <<>>
    /\ sym_df = <<>>
    /\ features = <<>>
    /\ dt_pc = "files"

\* dataprocessor.py lines 172-180: the next file; a raise in either call
\* ends process_all_data
ProcessFile ==
    /\ dt_pc = "files"
    /\ Len(pa_participants_list) < MaxFiles
    /\ \E cuptree \in CuptreeFiles(Len(pa_participants_list) + 1) :
          LET ps == get_all_participants(cuptree)
              gs == extract_games_from_cuptree(cuptree)
          IN  IF ps.status = "raised" \/ gs.status = "raised"
              THEN /\ dt_pc' = "raised"
                   /\ UNCHANGED <<pa_participants_list, pa_games_list>>
              ELSE /\ pa_participants_list' = Append(pa_participants_list, ps.rows)
                   /\ pa_games_list' = Append(pa_games_list, gs.rows)
                   /\ dt_pc' = "files"
    /\ UNCHANGED <<participants_df, games_df, combined_df, sym_df, features, dt_rest>>

\* dataprocessor.py lines 163-164 and 182-194: with no file the call raises;
\* the tables are concatenated, the roster de-duplicated, both saved
SaveProcessed ==
    /\ dt_pc = "files"
    /\ pa_participants_list # <<>>
    /\ participants_df' = drop_duplicates(concat(pa_participants_list))
    /\ games_df' = concat(pa_games_list)
    /\ dt_pc' = "processed"
    /\ UNCHANGED <<pa_participants_list, pa_games_list, combined_df, sym_df,
                   features, dt_rest>>

\* datacombiner.py lines 19-22 and 72-103
CombineData ==
    /\ dt_pc = "processed"
    /\ LET game_df == ReadCsvGames(games_df)
           part_df == participant_features(participants_df)
           merged  == MergeAway(MergeHome(game_df, part_df), part_df)
       IN  /\ combined_df' = merged
           /\ sym_df' = symmetrize_games(merged)
    /\ dt_pc' = "combined"
    /\ UNCHANGED <<pa_participants_list, pa_games_list, participants_df, games_df,
                   features, dt_rest>>

\* featuresbuilder.py lines 29 and 52-80
BuildFeatures ==
    /\ dt_pc = "combined"
    /\ LET out == build_features(ReadCsvGames(sym_df))
       IN  /\ features' = out.rows
           /\ dt_pc' = IF out.status = "raised" THEN "features_raised"
                       ELSE "features"
    /\ UNCHANGED <<pa_participants_list, pa_games_list, participants_df, games_df,
                   combined_df, sym_df, dt_rest>>

DtNext == ProcessFile \/ SaveProcessed \/ CombineData \/ BuildFeatures

SpecData == DtInit /\ [][DtNext]_vars

-----------------------------------------------------------------------------
(* Claims checked under SpecData *)

\* combine_data has returned
Combined == dt_pc \in {"combined", "features", "features_raised"}

\* row m is the mirror of row r: home and away columns exchanged, the two
\* halves of a score exchanged, everything else equal
IsMirrorOf(m, r) ==
    /\ m.id = r.id
    /\ m.home_id = r.away_id /\ m.away_id = r.home_id
    /\ m.id_home = r.id_away /\ m.id_away = r.id_home
    /\ m.name_home = r.name_away /\ m.name_away = r.name_home
    /\ m.birthdate_home = r.birthdate_away /\ m.birthdate_away = r.birthdate_home
    /\ m.homeTeamScore = r.awayTeamScore /\ m.awayTeamScore = r.homeTeamScore
    /\ m.round_description = r.round_description
    /\ m.uniqueTournament = r.uniqueTournament
    /\ IF r.result = NaN THEN m.result = NaN
       ELSE /\ Len(r.result) = 3 /\ Len(m.result) = 3
            /\ m.result[1] = r.result[3] /\ m.result[2] = ":"
            /\ m.result[3] = r.result[1]

\* C2: for every input table of n rows, one application of symmetrize_games
\* returns exactly 2n rows, rows 0..n-1 being the input rows in their input
\* order and rows n..2n-1 the mirrored rows of input rows 0..n-1 in the same
\* order.
C2_OriginalsThenMirrors ==
    Combined =>
        LET n == Len(combined_df)
        IN  /\ Len(sym_df) = 2 * n
            /\ DOMAIN sym_df = 1..(2 * n)
            /\ \A i \in 1..n :
                  /\ sym_df[i] = combined_df[i]
                  /\ IsMirrorOf(sym_df[n + i], combined_df[i])

\* a table of two different matches was symmetrized into four rows
C2_Witness ==
    /\ dt_pc = "combined"
    /\ Len(combined_df) = 2
    /\ combined_df[1].id # combined_df[2].id
    /\ Len(sym_df) = 4
    /\ sym_df[4].id = combined_df[2].id
    /\ sym_df[4].home_id = combined_df[2].away_id

RosterIds == {participants_df[i].id : i \in DOMAIN participants_df}

\* C8: the table returned by combine_data contains exactly two rows for each
\* MatchRecord whose home_id and away_id both occur in the roster, and no
\* row for any other MatchRecord, a bye included.
C8_TwoRowsPerJoinedMatch ==
    Combined =>
        \A k \in DOMAIN games_df :
            LET g    == games_df[k]
                rows == {i \in DOMAIN sym_df : sym_df[i].id = g.id}
            IN  IF g.home_id \in RosterIds /\ g.away_id \in RosterIds
                THEN Cardinality(rows) = 2
                ELSE rows = {}

\* C9: after process_all_data the participant roster contains each team id
\* at most once, also when the same team id is referenced with differing
\* values in its other attributes.
C9_RosterIdsUnique ==
    dt_pc \in {"processed", "combined", "features", "features_raised"} =>
        \A i, j \in DOMAIN participants_df :
            participants_df[i].id = participants_df[j].id => i = j

\* some row of the table build_features reads has a uniqueTournament absent
\* from the surface table or a round_description absent from the stage-code
\* table
SomeRowUnmapped ==
    \E i \in DOMAIN sym_df :
        \/ \A e \in tournament_surfaces : e[1] # sym_df[i].uniqueTournament
        \/ sym_df[i].round_description \notin StageCodes

\* C10: build_features raises, and returns no feature table, whenever some
\* input row has a uniqueTournament absent from the surface table or a
\* round_description absent from the stage-code table; it never emits a
\* FeatureRow with a missing surface or a missing round_ordinal.
C10_RaisesOnUnmappedRow ==
    /\ (dt_pc \in {"features", "features_raised"} /\ SomeRowUnmapped)
          => (dt_pc = "features_raised" /\ features = <<>>)
    /\ \A i \in DOMAIN features :
          features[i].surface # {} /\ features[i].round_ordinal # {}

-----------------------------------------------------------------------------
(* Further claims checked under SpecScore *)

\* the value is of the two-part shape and both parts are decimal numbers
IsParsableScore(r) ==
    /\ IsTwoPart(r)
    /\ \A k \in 1..2 :
          LET part == split(r, ":")[k]
          IN  Len(part) > 0 /\ \A i \in 1..Len(part) : part[i] \in {"0", "1"}

\* the number a string of the digits 0 and 1 denotes in base ten
RECURSIVE DecimalValue(_)
DecimalValue(part) ==
    IF part = <<>> THEN 0
    ELSE 10 * DecimalValue(SubSeq(part, 1, Len(part) - 1))
         + (IF part[Len(part)] = "1" THEN 1 ELSE 0)

\* C11: for every result value, define_label returns 'home' when the result
\* is of the shape "H:A" with H > A, 'away' when it is of that shape with
\* H <= A, and raises for every value that is not of the two-part "H:A"
\* shape or whose parts cannot be parsed as numbers.
C11_LabelOrRaise ==
    sc_pc = "labelled" =>
        IF IsParsableScore(result)
        THEN LET parts == split(result, ":")
             IN  IF DecimalValue(parts[1]) > DecimalValue(parts[2])
                 THEN label = "home"
                 ELSE label = "away"
        ELSE label = Raised

\* C11 restricted to the values the claim is right about: the two-part
\* values and the values without a colon
C11_TwoPartOrNoColon ==
    (sc_pc = "labelled" /\ (IsTwoPart(result) \/ ~IsStr(result)
                              \/ ~Contains(result, <<":">>)))
        => C11_LabelOrRaise

-----------------------------------------------------------------------------
(* Further claims checked under SpecFlat *)

\* a result that, compared case-insensitively, is a terminal outcome
IsTerminalOutcome(r) ==
    /\ r \notin {None, NaN, Unset, Missing}
    /\ lower(r) \in {s_retired, s_walkover, s_0_0}

\* C14: no MatchRecord in the output of extract_games_from_cuptree has a
\* result that, compared case-insensitively, is one of the terminal outcomes
\* "retired", "walkover" or "0:0"; this holds for the result as emitted,
\* that is after any sentinel rewrite to "<homeTeamScore>:<awayTeamScore>".
C14_NoTerminalEmitted ==
    /\ \A i \in DOMAIN games_list : ~IsTerminalOutcome(games_list[i].result)
    /\ \A i \in DOMAIN fl_returned : ~IsTerminalOutcome(fl_returned[i].result)

\* C14 for the blocks whose result is not a sentinel: the record of such a
\* block never carries a terminal outcome
C14_NoTerminalUnlessRewritten ==
    \A i \in CurRecords :
        ~IsSentinelResult(cur_block.result)
            => ~IsTerminalOutcome(games_list[i].result)

\* C13: flattening is fail-fast per bracket: if map_round_description fails
\* for the round of any processed block, extract_games_from_cuptree raises and
\* returns no MatchRecord for that bracket, not even for the blocks it
\* processed before the failing one.
C13_FailFastPerBracket ==
    /\ (CurReachedClassifier /\ CurDescriptionUnknown)
          => (fl_status = "raised" /\ fl_returned = <<>>)
    /\ fl_status = "raised"
          => (CurReachedClassifier /\ CurDescriptionUnknown /\ fl_returned = <<>>)
    /\ fl_status = "returned" => fl_returned = games_list

\* the second block sits in a round the classifier rejects: the call raised
\* and returns nothing, although the record of the first block was collected
C13_Witness ==
    /\ fl_status = "raised"
    /\ cur_block.id = 2
    /\ CurDescriptionUnknown
    /\ \E i \in DOMAIN games_list : games_list[i].id = 1
    /\ fl_returned = <<>>

-----------------------------------------------------------------------------
(* Specification SpecBirth: participant_features is called on two rosters  *)
(* that hold the same participants.  The row order of participants.csv is  *)
(* the order in which get_all_participants first meets each team, which    *)
(* follows os.listdir and the order of the blocks in the files.            *)

\* the i-th participant of the rosters compared
RosterTeam(i) == Team(<<Digits[i + 1]>>, "Player", i)

\* the rosters that hold every participant of S once, in any row order
RostersOf(S) ==
    { [i \in 1..Cardinality(S) |-> RosterTeam(f[i])] :
        f \in { g \in [1..Cardinality(S) -> S] :
                  \A i, j \in 1..Cardinality(S) : i # j => g[i] # g[j] } }

AllRosters == UNION { RostersOf(S) : S \in SUBSET (1..MaxRoster) }

\* the set of participants a roster holds
RosterSet(roster) == { roster[i] : i \in DOMAIN roster }

\* __init__, lines 20-22: two combiners, each with the roster it read
BdInit ==
    /\ ScIdle
    /\ RdIdle
    /\ FlIdle
    /\ DtIdle
    /\ bd_roster_a \in AllRosters
    /\ bd_roster_b \in { r \in AllRosters : RosterSet(r) = RosterSet(bd_roster_a) }
    /\ bd_features_a = <<>>
    /\ bd_features_b = <<>>
    /\ bd_pc = "start"

\* participant_features of the first combiner
ParticipantFeaturesA ==
    /\ bd_pc = "start"
    /\ bd_features_a' = participant_features(bd_roster_a)
    /\ bd_pc' = "first"
    /\ UNCHANGED <<bd_roster_a, bd_roster_b, bd_features_b, bd_rest>>

\* participant_features of the second combiner
ParticipantFeaturesB ==
    /\ bd_pc = "first"
    /\ bd_features_b' = participant_features(bd_roster_b)
    /\ bd_pc' = "both"
    /\ UNCHANGED <<bd_roster_a, bd_roster_b, bd_features_a, bd_rest>>

BdNext == ParticipantFeaturesA \/ ParticipantFeaturesB

SpecBirth == BdInit /\ [][BdNext]_vars

-----------------------------------------------------------------------------
(* Claims checked under SpecBirth *)

\* C12: the synthetic birthdate is a function of the participant set: for any
\* two rosters that contain the same set of participants, in whatever row
\* order, participant_features assigns every participant id the same
\* birthdate in both.
C12_BirthdateBySet ==
    bd_pc = "both" =>
        \A i \in DOMAIN bd_features_a, j \in DOMAIN bd_features_b :
            bd_features_a[i].id = bd_features_b[j].id
                => bd_features_a[i].birthdate = bd_features_b[j].birthdate

\* C12 for two rosters in the same row order: every participant id has the
\* same birthdate in both
C12_BirthdateByRowOrder ==
    (bd_pc = "both" /\ bd_roster_a = bd_roster_b) => C12_BirthdateBySet

====
